---- MODULE Spec2Model ----
(***************************************************************************)
(* Model of test1.py: the module body, inefficient_function and            *)
(* efficient_function, executed one Python statement per step.             *)
(*                                                                         *)
(* Python values: a str is a TLA+ string, a list a sequence, a tuple a     *)
(* sequence, an int an integer.  A namespace (module globals, function     *)
(* locals) is a function from the names bound in it to their values: a     *)
(* name outside its DOMAIN is unbound and reading it raises.               *)
(***************************************************************************)
EXTENDS Integers, Sequences, FiniteSets, TLC

VARIABLES
    pc,       \* statement about to be executed
    frame,    \* the active function call: name, return label, entry snapshot
    globals,  \* module namespace
    locals,   \* namespace of the active function call
    iter,     \* iterator of the for loop being executed
    stdout,   \* lines printed so far
    err,      \* exception that ended the run, "" if none
    events,   \* log of calls and returns, in order
    returns,  \* log of the values returned, in order
    visits    \* per loop of the active (or last) call: the targets bound

vars == <<pc, frame, globals, locals, iter, stdout, err, events, returns, visits>>

\* Number of calls a client makes after importing the module.
MaxCalls == 3

----------------------------------------------------------------------------
(* Namespaces *)

EmptyNamespace == [n \in {} |-> ""]

Bind(ns, name, value) ==
    [n \in DOMAIN ns \cup {name} |-> IF n = name THEN value ELSE ns[n]]

Bound(ns, names) == names \subseteq DOMAIN ns

----------------------------------------------------------------------------
(* Built-ins used by the code *)

Digits == <<"0", "1", "2", "3", "4", "5", "6", "7", "8", "9">>

RECURSIVE NatStr(_)
NatStr(n) == IF n < 10 THEN Digits[n + 1]
             ELSE NatStr(n \div 10) \o Digits[(n % 10) + 1]

\* str(n), as the f-string applies it to {i}
IntStr(n) == IF n < 0 THEN "-" \o NatStr(-n) ELSE NatStr(n)

UpperTable == [a |-> "A", b |-> "B", c |-> "C", d |-> "D", e |-> "E"]

\* s.upper() for the one-character strings the program handles
Upper(s) == IF s \in DOMAIN UpperTable THEN UpperTable[s] ELSE s

\* seq[i] is defined for -len <= i < len
ValidIndex(seq, i) == -Len(seq) <= i /\ i < Len(seq)

Index(seq, i) == IF i < 0 THEN seq[Len(seq) + i + 1] ELSE seq[i + 1]

RECURSIVE Join(_, _)
Join(sep, seq) ==
    IF seq = <<>> THEN ""
    ELSE IF Len(seq) = 1 THEN seq[1]
    ELSE seq[1] \o sep \o Join(sep, Tail(seq))

----------------------------------------------------------------------------
(* Iterators: range(stop), iter(list), enumerate(list) *)

NoIter == [kind |-> "none", pos |-> 0, stop |-> 0, seq |-> <<>>]

RangeIter(stop) == [kind |-> "range", pos |-> 0, stop |-> stop, seq |-> <<>>]

ListIter(seq) == [kind |-> "list", pos |-> 0, stop |-> 0, seq |-> seq]

EnumerateIter(seq) == [kind |-> "enumerate", pos |-> 0, stop |-> 0, seq |-> seq]

\* off by one: the last element is never produced
HasNextSkipsLast(it) == IF it.kind = "range" THEN it.pos < it.stop - 1
                        ELSE it.pos < Len(it.seq) - 1

HasNext(it) == IF it.kind = "range" THEN it.pos < it.stop
               ELSE it.pos < Len(it.seq)

NextValue(it) == CASE it.kind = "range" -> it.pos
                   [] it.kind = "list" -> it.seq[it.pos + 1]
                   [] it.kind = "enumerate" -> <<it.pos, it.seq[it.pos + 1]>>

Advance(it) == [it EXCEPT !.pos = @ + 1]

----------------------------------------------------------------------------
(* Expressions and statements of the source *)

Banner == "Testing Green Coder extension..."

ItemsLiteral == <<"a", "b", "c", "d", "e">>

\* one index too many
RangeStopPastEnd(items) == Len(items) + 1

\* range(len(items))
RangeStop(items) == Len(items)

\* one-based numbering
FormatItemOneBased(i, item) == "Item " \o IntStr(i + 1) \o ": " \o item

\* f"Item {i}: {...}"
FormatItem(i, item) == "Item " \o IntStr(i) \o ": " \o item

\* [item.upper()] + result
ListConcatPrepend(result, item) == <<Upper(item)>> \o result

\* result + [item]
ListConcatNoUpper(result, item) == result \o <<item>>

\* result + [item.upper()]
ListConcat(result, item) == result \o <<Upper(item)>>

\* item + text
TextConcatPrepend(text, item) == item \o text

\* text + item
TextConcat(text, item) == text \o item

\* [item.upper() for item in items]
RECURSIVE ListComp(_)
ListComp(items) ==
    IF items = <<>> THEN <<>>
    ELSE <<Upper(Head(items))>> \o ListComp(Tail(items))

\* the global declaration left out: the module namespace is not written
StoreGlobalVarLocalOnly(g, value) == g

\* global global_var; global_var = "test"
StoreGlobalVar(g, value) == Bind(g, "global_var", value)

FunctionNames == {"inefficient_function", "efficient_function"}

Entry(f) == IF f = "inefficient_function" THEN "I_global_assign" ELSE "E_items"

\* the two calls of the script in the other order
MainSeqSwapped == << "M_import_os", "M_import_sys", "M_def_inefficient",
                     "M_def_efficient", "M_if_main", "M_print",
                     "M_call_efficient", "M_call_inefficient", "exit" >>

\* statements of the module body, in program order
MainSeq == << "M_import_os", "M_import_sys", "M_def_inefficient",
              "M_def_efficient", "M_if_main", "M_print",
              "M_call_inefficient", "M_call_efficient", "exit" >>

Succ(label) ==
    LET k == CHOOSE j \in 1..Len(MainSeq) : MainSeq[j] = label
    IN  MainSeq[k + 1]

NoFrame == [fn |-> "", ret |-> "", gdef |-> FALSE]

NumCalls == Cardinality({k \in DOMAIN events : events[k][1] = "call"})

----------------------------------------------------------------------------
(* Step helpers *)

Raise(exc) ==
    /\ pc' = "error"
    /\ err' = exc
    /\ UNCHANGED <<frame, globals, locals, iter, stdout, events, returns, visits>>

\* a statement that only rebinds a module-level name
GlobalStmt(name, value, next) ==
    /\ globals' = Bind(globals, name, value)
    /\ pc' = next
    /\ UNCHANGED <<frame, locals, iter, stdout, err, events, returns, visits>>

\* a statement that only rebinds a local name
LocalStmt(name, value, next) ==
    /\ locals' = Bind(locals, name, value)
    /\ pc' = next
    /\ UNCHANGED <<frame, globals, iter, stdout, err, events, returns, visits>>

\* print(line)
PrintStmt(line, next) ==
    /\ stdout' = Append(stdout, line)
    /\ pc' = next
    /\ UNCHANGED <<frame, globals, locals, iter, err, events, returns, visits>>

\* f(): look the name up in the module namespace, push a frame
Call(f, retLabel) ==
    IF f \in DOMAIN globals
    THEN /\ pc' = Entry(f)
         /\ frame' = [fn |-> f, ret |-> retLabel,
                      gdef |-> "global_var" \in DOMAIN globals]
         /\ locals' = EmptyNamespace
         /\ iter' = NoIter
         /\ visits' = EmptyNamespace
         /\ events' = Append(events, <<"call", f>>)
         /\ UNCHANGED <<globals, stdout, err, returns>>
    ELSE Raise("NameError")

\* for ... in <iterable>: evaluate the iterable once, take its iterator
ForEnter(label, it, next) ==
    /\ iter' = it
    /\ visits' = Bind(visits, label, <<>>)
    /\ pc' = next
    /\ UNCHANGED <<frame, globals, locals, stdout, err, events, returns>>

\* next(iterator): bind the target and enter the body, or leave the loop
ForNext(label, bindTarget, body, after) ==
    IF HasNext(iter)
    THEN /\ iter' = Advance(iter)
         /\ locals' = bindTarget
         /\ visits' = [visits EXCEPT ![label] = Append(@, NextValue(iter))]
         /\ pc' = body
         /\ UNCHANGED <<frame, globals, stdout, err, events, returns>>
    ELSE /\ iter' = NoIter
         /\ pc' = after
         /\ UNCHANGED <<frame, globals, locals, stdout, err, events, returns, visits>>

\* return result, text
Return ==
    IF Bound(locals, {"result", "text"})
    THEN /\ returns' = Append(returns,
                 [fn |-> frame.fn, gdef |-> frame.gdef,
                  value |-> <<locals["result"], locals["text"]>>])
         /\ events' = Append(events, <<"return", frame.fn>>)
         /\ pc' = frame.ret
         /\ frame' = NoFrame
         /\ locals' = EmptyNamespace
         /\ UNCHANGED <<globals, iter, stdout, err, visits>>
    ELSE Raise("UnboundLocalError")

----------------------------------------------------------------------------
(* Module body *)

Init ==
    /\ pc = "M_import_os"
    /\ frame = NoFrame
    /\ globals \in { [n \in {"__name__"} |-> m] : m \in {"__main__", "test1"} }
    /\ locals = EmptyNamespace
    /\ iter = NoIter
    /\ stdout = <<>>
    /\ err = ""
    /\ events = <<>>
    /\ returns = <<>>
    /\ visits = EmptyNamespace

M_import_os ==
    /\ pc = "M_import_os"
    /\ GlobalStmt("os", "<module os>", Succ("M_import_os"))

M_import_sys ==
    /\ pc = "M_import_sys"
    /\ GlobalStmt("sys", "<module sys>", Succ("M_import_sys"))

M_def_inefficient ==
    /\ pc = "M_def_inefficient"
    /\ GlobalStmt("inefficient_function", "<function inefficient_function>",
                  Succ("M_def_inefficient"))

M_def_efficient ==
    /\ pc = "M_def_efficient"
    /\ GlobalStmt("efficient_function", "<function efficient_function>",
                  Succ("M_def_efficient"))

M_if_main ==
    /\ pc = "M_if_main"
    /\ pc' = IF globals["__name__"] = "__main__" THEN Succ("M_if_main")
             ELSE "imported"
    /\ UNCHANGED <<frame, globals, locals, iter, stdout, err, events, returns, visits>>

M_print ==
    /\ pc = "M_print"
    /\ PrintStmt(Banner, Succ("M_print"))

M_call_inefficient ==
    /\ pc = "M_call_inefficient"
    /\ Call("inefficient_function", Succ("M_call_inefficient"))

M_call_efficient ==
    /\ pc = "M_call_efficient"
    /\ Call("efficient_function", Succ("M_call_efficient"))

\* the module was imported: a client calls its functions, in any order
ClientCall ==
    /\ pc = "imported"
    /\ NumCalls < MaxCalls
    /\ \E f \in FunctionNames : Call(f, "imported")

----------------------------------------------------------------------------
(* inefficient_function *)

I_global_assign ==
    /\ pc = "I_global_assign"
    /\ globals' = StoreGlobalVar(globals, "test")
    /\ pc' = "I_items"
    /\ UNCHANGED <<frame, locals, iter, stdout, err, events, returns, visits>>

I_items ==
    /\ pc = "I_items"
    /\ LocalStmt("items", ItemsLiteral, "I_for_range")

I_for_range ==
    /\ pc = "I_for_range"
    /\ IF Bound(locals, {"items"})
       THEN ForEnter("I_for_range", RangeIter(RangeStop(locals["items"])),
                     "I_for_range_next")
       ELSE Raise("UnboundLocalError")

I_for_range_next ==
    /\ pc = "I_for_range_next"
    /\ ForNext("I_for_range", Bind(locals, "i", NextValue(iter)),
               "I_print", "I_result_init")

I_print ==
    /\ pc = "I_print"
    /\ IF ~Bound(locals, {"i", "items"}) THEN Raise("UnboundLocalError")
       ELSE IF ~ValidIndex(locals["items"], locals["i"]) THEN Raise("IndexError")
       ELSE PrintStmt(FormatItem(locals["i"], Index(locals["items"], locals["i"])),
                      "I_for_range_next")

I_result_init ==
    /\ pc = "I_result_init"
    /\ LocalStmt("result", <<>>, "I_for_list")

I_for_list ==
    /\ pc = "I_for_list"
    /\ IF Bound(locals, {"items"})
       THEN ForEnter("I_for_list", ListIter(locals["items"]), "I_for_list_next")
       ELSE Raise("UnboundLocalError")

I_for_list_next ==
    /\ pc = "I_for_list_next"
    /\ ForNext("I_for_list", Bind(locals, "item", NextValue(iter)),
               "I_list_concat", "I_text_init")

I_list_concat ==
    /\ pc = "I_list_concat"
    /\ IF Bound(locals, {"result", "item"})
       THEN LocalStmt("result", ListConcat(locals["result"], locals["item"]),
                      "I_for_list_next")
       ELSE Raise("UnboundLocalError")

I_text_init ==
    /\ pc = "I_text_init"
    /\ LocalStmt("text", "", "I_for_text")

I_for_text ==
    /\ pc = "I_for_text"
    /\ IF Bound(locals, {"items"})
       THEN ForEnter("I_for_text", ListIter(locals["items"]), "I_for_text_next")
       ELSE Raise("UnboundLocalError")

I_for_text_next ==
    /\ pc = "I_for_text_next"
    /\ ForNext("I_for_text", Bind(locals, "item", NextValue(iter)),
               "I_text_concat", "I_return")

I_text_concat ==
    /\ pc = "I_text_concat"
    /\ IF Bound(locals, {"text", "item"})
       THEN LocalStmt("text", TextConcat(locals["text"], locals["item"]),
                      "I_for_text_next")
       ELSE Raise("UnboundLocalError")

I_return ==
    /\ pc = "I_return"
    /\ Return

----------------------------------------------------------------------------
(* efficient_function *)

E_items ==
    /\ pc = "E_items"
    /\ LocalStmt("items", ItemsLiteral, "E_for_enum")

E_for_enum ==
    /\ pc = "E_for_enum"
    /\ IF Bound(locals, {"items"})
       THEN ForEnter("E_for_enum", EnumerateIter(locals["items"]),
                     "E_for_enum_next")
       ELSE Raise("UnboundLocalError")

E_for_enum_next ==
    /\ pc = "E_for_enum_next"
    /\ ForNext("E_for_enum",
               Bind(Bind(locals, "i", NextValue(iter)[1]),
                    "item", NextValue(iter)[2]),
               "E_print", "E_listcomp")

E_print ==
    /\ pc = "E_print"
    /\ IF Bound(locals, {"i", "item"})
       THEN PrintStmt(FormatItem(locals["i"], locals["item"]), "E_for_enum_next")
       ELSE Raise("UnboundLocalError")

E_listcomp ==
    /\ pc = "E_listcomp"
    /\ IF Bound(locals, {"items"})
       THEN LocalStmt("result", ListComp(locals["items"]), "E_join")
       ELSE Raise("UnboundLocalError")

E_join ==
    /\ pc = "E_join"
    /\ IF Bound(locals, {"items"})
       THEN LocalStmt("text", Join("", locals["items"]), "E_return")
       ELSE Raise("UnboundLocalError")

E_return ==
    /\ pc = "E_return"
    /\ Return

----------------------------------------------------------------------------
(* Specifications *)

\* the interpreter executing the statement at pc
Interp ==
    \/ M_import_os \/ M_import_sys \/ M_def_inefficient \/ M_def_efficient
    \/ M_if_main \/ M_print \/ M_call_inefficient \/ M_call_efficient
    \/ I_global_assign \/ I_items \/ I_for_range \/ I_for_range_next \/ I_print
    \/ I_result_init \/ I_for_list \/ I_for_list_next \/ I_list_concat
    \/ I_text_init \/ I_for_text \/ I_for_text_next \/ I_text_concat \/ I_return
    \/ E_items \/ E_for_enum \/ E_for_enum_next \/ E_print \/ E_listcomp
    \/ E_join \/ E_return

Next == Interp \/ ClientCall

Spec == Init /\ [][Next]_vars

\* the interpreter never stops between statements; a client may stop calling
FairSpec == Spec /\ WF_vars(Interp)

TypeOK ==
    /\ err \in {"", "NameError", "UnboundLocalError", "IndexError"}
    /\ frame.fn \in FunctionNames \cup {""}
    /\ DOMAIN locals \subseteq {"items", "i", "item", "result", "text"}
    /\ NumCalls <= MaxCalls

----------------------------------------------------------------------------
(* Properties *)

INEFF == "inefficient_function"
EFF == "efficient_function"

ExpectedResult == <<"A", "B", "C", "D", "E">>
ExpectedText == "abcde"
ExpectedBlock == <<"Item 0: a", "Item 1: b", "Item 2: c", "Item 3: d", "Item 4: e">>
TextPrefixes == <<"", "a", "ab", "abc", "abcd", "abcde">>

IsScript == globals["__name__"] = "__main__"

IsPrefix(s, t) == Len(s) <= Len(t) /\ SubSeq(t, 1, Len(s)) = s

Called(f) == \E k \in DOMAIN events : events[k] = <<"call", f>>
Returned(f) == \E k \in DOMAIN events : events[k] = <<"return", f>>
JustReturned(f) == events # <<>> /\ events[Len(events)] = <<"return", f>>

RECURSIVE Repeat(_, _)
Repeat(block, n) == IF n = 0 THEN <<>> ELSE block \o Repeat(block, n - 1)

\* C1: whenever both functions have returned, the pair returned by
\* inefficient_function equals the pair returned by efficient_function,
\* component by component.
C1_SameResults ==
    \A j, k \in DOMAIN returns :
        (returns[j].fn = INEFF /\ returns[k].fn = EFF) =>
            /\ returns[j].value[1] = returns[k].value[1]
            /\ returns[j].value[2] = returns[k].value[2]

C1_Witness ==
    /\ IsScript /\ pc = "exit"
    /\ \E j, k \in DOMAIN returns : returns[j].fn = INEFF /\ returns[k].fn = EFF

\* C2: every call of either function, whatever calls came before it,
\* returns a two-element tuple: the list ["A","B","C","D","E"] and the text
\* "abcde".
C2_ReturnValues ==
    \A k \in DOMAIN returns :
        /\ Len(returns[k].value) = 2
        /\ returns[k].value[1] = ExpectedResult
        /\ Len(returns[k].value[1]) = Len(ItemsLiteral)
        /\ returns[k].value[2] = ExpectedText

C2_Witness ==
    /\ Len(returns) = 3
    /\ returns[1].fn = EFF /\ returns[2].fn = INEFF /\ returns[3].fn = INEFF

ScriptEvents == << <<"call", INEFF>>, <<"return", INEFF>>,
                   <<"call", EFF>>, <<"return", EFF>> >>

C3_Order ==
    IsScript =>
        /\ IsPrefix(events, ScriptEvents)
        /\ stdout # <<>> => stdout[1] = Banner
        /\ events # <<>> => stdout # <<>>
        /\ pc = "exit" => events = ScriptEvents

\* C3: run as a script the program terminates; it prints the banner first,
\* then calls inefficient_function once, and only after that has returned
\* calls efficient_function once, then exits.
C3_ScriptRun == []C3_Order /\ (IsScript ~> pc = "exit")

C3_Witness == IsScript /\ pc = "exit" /\ events = ScriptEvents /\ err = ""

C4_NoError ==
    /\ err = "" /\ pc # "error"
    /\ pc = "I_print" =>
          /\ Bound(locals, {"i", "items"})
          /\ 0 <= locals["i"] /\ locals["i"] < Len(locals["items"])
    /\ pc \in {"I_list_concat", "I_text_concat", "E_print"} => "item" \in DOMAIN locals
    /\ pc \in {"I_for_list_next", "I_list_concat"} => "result" \in DOMAIN locals
    /\ pc \in {"I_for_text_next", "I_text_concat"} => "text" \in DOMAIN locals
    /\ pc \in {"I_return", "E_return"} => Bound(locals, {"result", "text"})
    /\ frame.fn # "" /\ pc \notin {"I_global_assign", "I_items", "E_items"}
          => "items" \in DOMAIN locals

\* C4: no error state is reachable: every index used in items[i] is within
\* 0 <= i < len(items), every variable is assigned before it is read, and
\* every call reaches its return statement and returns.
C4_NoErrorAndReturns == []C4_NoError /\ (frame.fn # "" ~> frame.fn = "")

C4_Witness ==
    /\ pc = "I_return" /\ err = ""
    /\ visits["I_for_range"] = <<0, 1, 2, 3, 4>>

InLoop == pc \in {"I_for_range_next", "I_print", "I_for_list_next", "I_list_concat",
                  "I_for_text_next", "I_text_concat", "E_for_enum_next", "E_print"}

C5_Iterations ==
    /\ JustReturned(INEFF) =>
          /\ DOMAIN visits = {"I_for_range", "I_for_list", "I_for_text"}
          /\ Len(visits["I_for_range"]) = 5
          /\ visits["I_for_range"] = [k \in 1..Len(ItemsLiteral) |-> k - 1]
          /\ visits["I_for_list"] = ItemsLiteral
          /\ visits["I_for_text"] = ItemsLiteral
    /\ JustReturned(EFF) =>
          /\ DOMAIN visits = {"E_for_enum"}
          /\ Len(visits["E_for_enum"]) = 5
          /\ visits["E_for_enum"] =
                [k \in 1..Len(ItemsLiteral) |-> <<k - 1, ItemsLiteral[k]>>]
    /\ \A l \in DOMAIN visits : Len(visits[l]) <= 5

\* C5: each of the four for loops runs its body exactly five times, once per
\* element of items in list order, and then the function returns.
C5_LoopsTerminate == []C5_Iterations /\ (InLoop ~> frame.fn = "")

C5_Witness ==
    /\ JustReturned(EFF) /\ Returned(INEFF)
    /\ Len(visits["E_for_enum"]) = 5

StdoutBody == IF stdout # <<>> /\ stdout[1] = Banner THEN Tail(stdout) ELSE stdout

\* C6: each call prints exactly the five lines "Item 0: a" .. "Item 4: e" in
\* that order, whichever function it is; a full script run prints 11 lines:
\* the banner followed by that block twice.
C6_PrintedLines ==
    /\ frame.fn = "" => StdoutBody = Repeat(ExpectedBlock, Len(returns))
    /\ frame.fn # "" =>
          /\ IsPrefix(Repeat(ExpectedBlock, Len(returns)), StdoutBody)
          /\ IsPrefix(StdoutBody, Repeat(ExpectedBlock, Len(returns) + 1))
    /\ IsScript /\ pc = "exit" =>
          /\ Len(stdout) = 11
          /\ stdout = <<Banner>> \o ExpectedBlock \o ExpectedBlock

C6_Witness == IsScript /\ pc = "exit" /\ Len(stdout) = 11 /\ Len(returns) = 2

\* the first call of inefficient_function has executed its assignment
FirstStoreDone == Called(INEFF) /\ (pc = "I_global_assign" => Returned(INEFF))

C7_GlobalVarState ==
    /\ "global_var" \in DOMAIN globals <=> FirstStoreDone
    /\ "global_var" \in DOMAIN globals => globals["global_var"] = "test"
    /\ \A j, k \in DOMAIN returns :
          (returns[j].fn = returns[k].fn /\ returns[j].gdef # returns[k].gdef)
              => returns[j].value = returns[k].value

C7_EfficientFrame ==
    (frame.fn = EFF \/ frame'.fn = EFF) => globals' = globals

\* C7: global_var is unbound until the first call of inefficient_function
\* assigns it and is "test" ever after; efficient_function never creates or
\* changes it; a function returns the same value whether or not global_var
\* was bound when it was called.
C7_GlobalVar == []C7_GlobalVarState /\ [][C7_EfficientFrame]_vars

C7_Witness ==
    /\ Len(returns) = 3
    /\ returns[1].fn = EFF /\ ~returns[1].gdef
    /\ returns[2].fn = INEFF /\ ~returns[2].gdef
    /\ returns[3].fn = EFF /\ returns[3].gdef
    /\ globals["global_var"] = "test"

\* completed iterations of the loop whose header is at label next
Completed(next) == IF pc = next THEN iter.pos ELSE iter.pos - 1

C8_LoopInvariant ==
    /\ pc \in {"I_for_list_next", "I_list_concat"} =>
          LET k == Completed("I_for_list_next") IN
          /\ 0 <= k /\ k <= 5
          /\ Len(locals["result"]) = k
          /\ locals["result"] = SubSeq(ExpectedResult, 1, k)
    /\ pc \in {"I_for_text_next", "I_text_concat"} =>
          LET k == Completed("I_for_text_next") IN
          /\ 0 <= k /\ k <= 5
          /\ Len(locals["text"]) = k
          /\ locals["text"] = TextPrefixes[k + 1]
    /\ "items" \in DOMAIN locals => locals["items"] = ItemsLiteral

C8_AppendOnly ==
    /\ Bound(locals, {"result"}) /\ Bound(locals', {"result"}) =>
          IsPrefix(locals["result"], locals'["result"])
    /\ Bound(locals, {"text"}) /\ Bound(locals', {"text"}) /\ frame.fn = INEFF =>
          \E s \in {""} \cup {ItemsLiteral[j] : j \in DOMAIN ItemsLiteral} :
              locals'["text"] = locals["text"] \o s
    /\ Bound(locals, {"items"}) /\ Bound(locals', {"items"}) =>
          locals'["items"] = locals["items"]

\* C8: after k iterations of the list-building loop result is the uppercased
\* first k elements of items, after k iterations of the string-building loop
\* text is the concatenation of the first k elements; an iteration only
\* appends at the end, and items is never modified.
C8_Accumulation == []C8_LoopInvariant /\ [][C8_AppendOnly]_vars

C8_Witness ==
    /\ pc = "I_text_concat" /\ iter.pos = 3
    /\ locals["text"] = "ab" /\ locals["result"] = ExpectedResult

====
